---- MODULE Spec2Model ----
(***************************************************************************)
(* A model of pysh (src/pysh.py): the read-eval loop, the job table, the   *)
(* history store, the reaper threads and the child processes they wait on. *)
(*                                                                         *)
(* The main thread's handlers are written as operators on a record `s` of  *)
(* the whole program state, because History.run re-enters Command.run and  *)
(* BuiltInCommand.run recursively.  A handler either runs to completion or *)
(* blocks in os.wait()/os.waitpid(); a blocked handler leaves the frames   *)
(* it still has to return through in `frames`.                             *)
(*                                                                         *)
(* An interrupted wait raises InterruptedError, as on the interpreters the *)
(* code was written for (the except clauses at lines 197, 332 and 448).    *)
(***************************************************************************)
EXTENDS Integers, Sequences, FiniteSets, TLC

\* Bounds of the exploration.
MaxProcs == 3      \* processes the shell forks in one run
MaxHist == 4       \* history entries in one run
MaxArg == 1        \* largest job number / history index typed as an argument

Pids == 1..MaxProcs

VARIABLES
    jobs,           \* Jobs.jobs: list of Job
    stopped_stack,  \* Jobs.stopped_stack: list of Job
    current_pid,    \* Jobs.current_pid
    history,        \* History.commands
    proc,           \* state of each child process of the shell
    nextPid,        \* next pid os.fork() returns
    reapers,        \* reapers[p]: threads blocked in wait_job on pid p
    pc,             \* where the main thread is
    child,          \* local `child` of the run() that is blocked in os.wait()
    fgjob,          \* local `job` of the start_process that is blocked in os.waitpid()
    frames,         \* callers the blocked call returns through, innermost first
    stray,          \* forked children that returned from Command.run into the shell's code
    stages,         \* stages[p]: the children of pipeline leader p, one per stage,
                    \* while p lives
    killed          \* pids `kill n` has sent SIGKILL to

vars == <<jobs, stopped_stack, current_pid, history, proc, nextPid, reapers,
          pc, child, fgjob, frames, stray, stages, killed>>

----------------------------------------------------------------------------
\* Commands (Command, BuiltInCommand): programme, arguments, background

built_in_commands == {"h", "history", "cd", "pwd", "exit", "jobs", "fg", "bg", "kill"}

\* Programmes execvp finds / does not find.
Programmes == {"sleep", "nosuch"}
Found(programme) == programme = "sleep"

\* arguments[1:] is at most one integer word: nargs = len(arguments) - 1.
Cmd(programme, nargs, arg, background) ==
    [programme |-> programme, nargs |-> nargs, arg |-> arg, background |-> background,
     commands |-> <<>>]

\* CommandPipeList: the stage commands and the background flag.
Pipe(commands, background) ==
    [programme |-> "|", nargs |-> 0, arg |-> 0, background |-> background,
     commands |-> commands]

IsPipe(c) == c.commands # <<>>

NoCmd == Cmd("", 0, 0, FALSE)

IsBuiltIn(c) == ~IsPipe(c) /\ c.programme \in built_in_commands

Job(command, pid, job_number) ==
    [command |-> command, pid |-> pid, job_number |-> job_number]

NoJob == Job(NoCmd, 0, 0)

\* What a run() returns: a tuple (pid, status), True, or None.
ResTuple(pid, status) == [kind |-> "tuple", pid |-> pid, status |-> status]
ResTrue == [kind |-> "True", pid |-> 0, status |-> "None"]
ResFalse == [kind |-> "False", pid |-> 0, status |-> "None"]
ResNone == [kind |-> "None", pid |-> 0, status |-> "None"]
Truthy(res) == res.kind \in {"tuple", "True"}

----------------------------------------------------------------------------
\* Sequence helpers (list.index, list.pop(i))

RECURSIVE IndexFrom(_, _, _)
IndexFrom(seq, x, i) ==
    IF i > Len(seq) THEN 0
    ELSE IF seq[i] = x THEN i
    ELSE IndexFrom(seq, x, i + 1)

Index(seq, x) == IndexFrom(seq, x, 1)

Pop(seq, i) == SubSeq(seq, 1, i - 1) \o SubSeq(seq, i + 1, Len(seq))

InSeq(seq, x) == \E i \in 1..Len(seq) : seq[i] = x

----------------------------------------------------------------------------
\* Signals (os.kill).  A pid that has been waited for no longer exists.

Exists(s, pid) == pid \in Pids /\ s.proc[pid] \in {"running", "stopped", "zombie"}

SigKill(s, pid) ==
    IF s.proc[pid] \in {"running", "stopped"}
    THEN [s EXCEPT !.proc[pid] = "zombie", !.stages[pid] = <<>>]
    ELSE s

SigStop(s, pid) ==
    IF s.proc[pid] = "running" THEN [s EXCEPT !.proc[pid] = "stopped"] ELSE s

SigCont(s, pid) ==
    IF s.proc[pid] = "stopped" THEN [s EXCEPT !.proc[pid] = "running"] ELSE s

\* An uncaught exception ends the main thread.
Crash(s) == [s EXCEPT !.pc = "crashed"]

Blocked(s) == s.pc \in {"wait", "fgwait"}
Ended(s) == s.pc \in {"crashed", "exited"}

----------------------------------------------------------------------------
\* Jobs

get_job_by_number(s, job_number) ==
    LET hits == {i \in 1..Len(s.jobs) : s.jobs[i].job_number = job_number}
    IN IF hits = {} THEN NoJob   \* raise NoSuchJob
       ELSE s.jobs[CHOOSE i \in hits : \A j \in hits : i <= j]

NewJobNumber(s) ==
    IF s.jobs = <<>> THEN 1 ELSE s.jobs[Len(s.jobs)].job_number + 1

StartReaper(s, pid) ==
    IF pid \in Pids THEN [s EXCEPT !.reapers[pid] = @ + 1] ELSE s

\* add_job without line 429: the job is registered and no thread waits for it.
add_job_no_reaper(s, command, pid) ==
    [s EXCEPT !.jobs = Append(@, Job(command, pid, NewJobNumber(s)))]

add_job(s, command, pid) ==
    LET job == Job(command, pid, NewJobNumber(s))
    IN StartReaper([s EXCEPT !.jobs = Append(@, job)], pid)

\* Lines 446-450 once the job is off both lists: block in os.waitpid.
StartProcessForeground(s, job) ==
    IF Index(s.jobs, job) = 0 THEN Crash(s)   \* ValueError
    ELSE [s EXCEPT !.jobs = Pop(@, Index(@, job)), !.pc = "fgwait", !.fgjob = job]

\* Lines 442-454, for the job popped off the stopped stack.
StartProcessResume(s, job, background) ==
    LET s1 == [s EXCEPT !.current_pid = 0]
    IN IF ~Exists(s1, job.pid) THEN Crash(s1)   \* ProcessLookupError
       ELSE IF background THEN StartReaper(SigCont(s1, job.pid), job.pid)
       ELSE StartProcessForeground(SigCont(s1, job.pid), job)

\* NoSuchJob is raised only with a job number, and BuiltInCommand.run catches
\* it and prints: the state is as it was.
start_process(s, job_number, background) ==
    IF s.stopped_stack = <<>> THEN s
    ELSE IF job_number # 0
    THEN LET job == get_job_by_number(s, job_number)
             i == Index(s.stopped_stack, job)
         IN IF job = NoJob THEN s
            ELSE IF i = 0 THEN Crash(s)   \* ValueError from list.index
            ELSE StartProcessResume([s EXCEPT !.stopped_stack = Pop(@, i)],
                                    job, background)
    ELSE LET n == Len(s.stopped_stack)
         IN StartProcessResume([s EXCEPT !.stopped_stack = SubSeq(@, 1, n - 1)],
                               s.stopped_stack[n], background)

kill(s, job_number) ==
    LET job == get_job_by_number(s, job_number)
    IN IF job = NoJob THEN s
       ELSE IF ~Exists(s, job.pid) THEN Crash(s)   \* ProcessLookupError
       ELSE [SigKill(s, job.pid) EXCEPT !.killed = @ \cup {job.pid}]

RECURSIVE KillFrom(_, _)
KillFrom(s, i) ==
    IF i > Len(s.jobs) THEN s
    ELSE IF ~Exists(s, s.jobs[i].pid) THEN Crash(s)   \* ProcessLookupError
    ELSE KillFrom(SigKill(s, s.jobs[i].pid), i + 1)

\* kill_all that takes its docstring at its word ("background processes") and
\* passes over the jobs on the stopped stack.
RECURSIVE KillBackgroundFrom(_, _)
KillBackgroundFrom(s, i) ==
    IF i > Len(s.jobs) THEN s
    ELSE IF InSeq(s.stopped_stack, s.jobs[i]) THEN KillBackgroundFrom(s, i + 1)
    ELSE IF ~Exists(s, s.jobs[i].pid) THEN Crash(s)
    ELSE KillBackgroundFrom(SigKill(s, s.jobs[i].pid), i + 1)

kill_all_background(s) == KillBackgroundFrom(s, 1)

kill_all(s) == KillFrom(s, 1)

\* exit() after kill_all, unless kill_all raised.
Exit(s) == IF Ended(s) THEN s ELSE [s EXCEPT !.pc = "exited"]

----------------------------------------------------------------------------
\* Command.run, CommandPipeList.run: what the shell's process does

Fork(s) ==
    IF s.nextPid \in Pids
    THEN [s EXCEPT !.proc[s.nextPid] = "running", !.nextPid = @ + 1]
    ELSE [s EXCEPT !.nextPid = @ + 1]   \* beyond MaxProcs: no action takes this step

\* Lines 188-199 and 327-336, in the parent after the fork of `pid`.
ParentAfterFork(s, pid, background) ==
    IF background THEN [s |-> s, res |-> ResTuple(pid, "None")]
    ELSE [s |-> [s EXCEPT !.current_pid = pid, !.pc = "wait", !.child = pid],
          res |-> ResNone]

\* In the child execvp either replaces the process or raises
\* FileNotFoundError, and then the child returns from run() (line 186).
CommandRunExternal(s, c) ==
    LET pid == s.nextPid
        s1 == Fork(s)
        s2 == IF Found(c.programme) THEN s1
              ELSE [s1 EXCEPT !.stray = @ \cup {pid}]
    IN ParentAfterFork(s2, pid, c.background)

\* What the leader's fork for one stage leaves (Command.run with temp_bg): the
\* programme running, or a copy of the leader that returned from line 186.
Stage(command) == IF Found(command.programme) THEN "running" ELSE "stray"

\* Whether the leader is still running after a built-in stage left its memory
\* as `after`: the leader ends where the built-in calls exit() or raises, and
\* `fg` raises ChildProcessError at line 447, the job not being the leader's
\* child.
LeaderAfter(after) == [s |-> after, ended |-> Ended(after) \/ after.pc = "fgwait"]

\* BuiltInCommand.run in the leader, whose memory `ls` is a copy of the
\* shell's at the fork: what it does to the lists stays in the copy, the
\* signals it sends reach the processes.  (cd, pwd, jobs and the history
\* commands signal nothing.)
LeaderBuiltIn(ls, c) ==
    LeaderAfter(
        CASE c.programme = "exit" -> Exit(kill_all(ls))
          [] c.programme = "fg" ->
                start_process(ls, IF c.nargs > 0 THEN c.arg ELSE 0, FALSE)
          [] c.programme = "bg" ->
                start_process(ls, IF c.nargs > 0 THEN c.arg ELSE 0, TRUE)
          [] c.programme = "kill" -> (IF c.nargs = 0 THEN ls ELSE kill(ls, c.arg))
          [] OTHER -> ls)

LeaderStage(stage, rest) == [rest EXCEPT !.stages = <<stage>> \o @]

RECURSIVE LeaderRun(_, _, _)

\* The rest of the leader's loop after a built-in stage.
LeaderContinues(r, commands, i) ==
    IF r.ended THEN [proc |-> r.s.proc, stages |-> <<>>, ended |-> TRUE]
    ELSE LeaderStage("builtin", LeaderRun(r.s, commands, i + 1))

\* Lines 311-325 in the leader.  An external stage is forked (Command.run); a
\* built-in stage runs in the leader itself, which forks nothing for it.
LeaderRun(ls, commands, i) ==
    IF i > Len(commands) THEN [proc |-> ls.proc, stages |-> <<>>, ended |-> FALSE]
    ELSE IF IsBuiltIn(commands[i])
    THEN LeaderContinues(LeaderBuiltIn(ls, commands[i]), commands, i)
    ELSE LeaderStage(Stage(commands[i]), LeaderRun(ls, commands, i + 1))

\* Of what the leader `pid` did, the shell's state holds the signals to the
\* processes that existed at the fork, and the leader's children.
LeaderEffects(s1, pid, run) ==
    IF pid \in Pids
    THEN [s1 EXCEPT
             !.proc = [p \in Pids |->
                          IF p < pid THEN run.proc[p]
                          ELSE IF p = pid /\ run.ended THEN "zombie"
                          ELSE @[p]],
             !.stages = [p \in Pids |->
                            IF p = pid
                            THEN (IF run.ended THEN <<>> ELSE run.stages)
                            ELSE IF run.proc[p] = "zombie" THEN <<>>
                            ELSE @[p]]]
    ELSE s1

\* Lines 303-336: the leader runs its stages, then waits for the last one
\* (line 322) if it forked it; the shell goes on at line 327.
CommandPipeListRun(s, c) ==
    ParentAfterFork(LeaderEffects(Fork(s), s.nextPid, LeaderRun(Fork(s), c.commands, 1)),
                    s.nextPid, c.background)

----------------------------------------------------------------------------
\* History

HistoryAppend(s, command) == [s EXCEPT !.history = Append(@, command)]

Frame(f, command) == [f |-> f, command |-> command]

\* commands[command_number - 1] with Python's negative indices; 0 is IndexError.
HistoryIndex(s, command_number) ==
    LET i == IF command_number >= 1 THEN command_number
             ELSE Len(s.history) + command_number
    IN IF i >= 1 /\ i <= Len(s.history) THEN i ELSE 0

RECURSIVE CommandRun(_, _, _)

\* History.run.  `depth` is the room left on the interpreter's stack: a
\* replay that re-enters itself ends in RecursionError.
HistoryRun(s, command_number, depth) ==
    IF command_number > Len(s.history) THEN [s |-> s, res |-> ResTrue]
    ELSE IF HistoryIndex(s, command_number) = 0 \/ depth = 0
    THEN [s |-> Crash(s), res |-> ResNone]   \* IndexError, RecursionError
    ELSE LET command == s.history[HistoryIndex(s, command_number)]
             r == CommandRun(s, command, depth - 1)
         IN IF Ended(r.s) THEN r
            ELSE IF Blocked(r.s)
            THEN [r EXCEPT !.s.frames = Append(@, Frame("History.run", command))]
            ELSE [s |-> HistoryAppend(r.s, command), res |-> ResNone]

\* print(jobs), lines 237-241: Jobs.__str__ renders every job, and
\* Job.__str__ waits for the process of a job that ps shows as a zombie
\* (lines 549-551).
JobsListing(s) ==
    [s EXCEPT !.proc = [p \in Pids |->
                           IF @[p] = "zombie" /\ \E i \in 1..Len(s.jobs) : s.jobs[i].pid = p
                           THEN "reaped" ELSE @[p]]]

\* What BuiltInCommand.run returns when nothing before line 287 returned.
RecordFlag(c) == IF c.programme \in {"h", "history"} THEN ResFalse ELSE ResTrue

Returned(s, c) == [s |-> s, res |-> IF Ended(s) \/ Blocked(s) THEN ResNone ELSE RecordFlag(c)]

BuiltInCommandRun(s, c, depth) ==
    CASE c.programme = "exit" -> [s |-> Exit(kill_all(s)), res |-> ResNone]
      [] c.programme = "fg" ->
            Returned(start_process(s, IF c.nargs > 0 THEN c.arg ELSE 0, FALSE), c)
      [] c.programme = "bg" ->
            Returned(start_process(s, IF c.nargs > 0 THEN c.arg ELSE 0, TRUE), c)
      [] c.programme = "kill" ->
            Returned(IF c.nargs = 0 THEN s ELSE kill(s, c.arg), c)
      [] c.programme = "jobs" -> Returned(JobsListing(s), c)
      [] c.programme \in {"h", "history"} ->
            IF c.nargs > 0 THEN HistoryRun(s, c.arg, depth)
            ELSE IF Len(s.history) # 0 THEN [s |-> s, res |-> ResTrue]
            ELSE Returned(s, c)
      [] OTHER -> Returned(s, c)

CommandRun(s, c, depth) ==
    IF IsPipe(c) THEN CommandPipeListRun(s, c)
    ELSE IF IsBuiltIn(c) THEN BuiltInCommandRun(s, c, depth)
    ELSE CommandRunExternal(s, c)

----------------------------------------------------------------------------
\* Jobs.run and the end of the loop body of Pysh.start

\* Jobs.run without line 473: current_pid keeps the last foreground pid.
JobsRunReturnKeepsPid(s, command, result) ==
    IF result.kind = "tuple" /\ result.status = "stopped"
    THEN LET new_job == Job(command, s.current_pid, NewJobNumber(s))
         IN [s EXCEPT !.stopped_stack = Append(@, new_job),
                      !.jobs = Append(@, new_job)]
    ELSE s

\* Jobs.run, lines 464-474, with the result of command.run().
JobsRunReturn(s, command, result) ==
    LET s1 == IF result.kind = "tuple" /\ result.status = "stopped"
              THEN LET new_job == Job(command, s.current_pid, NewJobNumber(s))
                   IN [s EXCEPT !.stopped_stack = Append(@, new_job),
                                !.jobs = Append(@, new_job)]
              ELSE s
    IN [s1 EXCEPT !.current_pid = 0]

\* Pysh.start, lines 102-108.
StartReturn(s, command, result) ==
    LET s1 == IF result.kind = "tuple" /\ result.status = "None"
              THEN add_job(s, command, result.pid)
              ELSE s
        s2 == IF Truthy(result) THEN HistoryAppend(s1, command) ELSE s1
    IN [s2 EXCEPT !.pc = "prompt", !.child = 0, !.fgjob = NoJob, !.frames = <<>>]

\* A blocked call returns `result`: the callers in `fr` run their remaining lines.
RECURSIVE Unwind(_, _, _)
Unwind(s, result, fr) ==
    IF fr = <<>> THEN s
    ELSE IF Head(fr).f = "History.run"
    THEN Unwind(HistoryAppend(s, Head(fr).command), ResNone, Tail(fr))
    ELSE StartReturn(JobsRunReturn(s, Head(fr).command, result), Head(fr).command, result)

\* Lines 101-108 for a command built from the input line.
StartCommand(s, command) ==
    LET r == CommandRun(s, command, MaxHist + 1)
    IN IF Ended(r.s) THEN r.s
       ELSE IF Blocked(r.s)
       THEN [r.s EXCEPT !.frames = Append(@, Frame("Jobs.run", command))]
       ELSE StartReturn(JobsRunReturn(r.s, command, r.res), command, r.res)

----------------------------------------------------------------------------
\* The state as a record, and back

S == [jobs |-> jobs, stopped_stack |-> stopped_stack, current_pid |-> current_pid,
      history |-> history, proc |-> proc, nextPid |-> nextPid, reapers |-> reapers,
      pc |-> pc, child |-> child, fgjob |-> fgjob, frames |-> frames,
      stray |-> stray, stages |-> stages, killed |-> killed]

Apply(s) ==
    /\ jobs' = s.jobs
    /\ stopped_stack' = s.stopped_stack
    /\ current_pid' = s.current_pid
    /\ history' = s.history
    /\ proc' = s.proc
    /\ nextPid' = s.nextPid
    /\ reapers' = s.reapers
    /\ pc' = s.pc
    /\ child' = s.child
    /\ fgjob' = s.fgjob
    /\ frames' = s.frames
    /\ stray' = s.stray
    /\ stages' = s.stages
    /\ killed' = s.killed

\* The exploration stops at MaxProcs forks and MaxHist history entries.
InBounds(s) ==
    /\ s.nextPid <= MaxProcs + 1
    /\ Len(s.history) + Len(s.frames) <= MaxHist

Init ==
    /\ jobs = <<>>
    /\ stopped_stack = <<>>
    /\ current_pid = 0
    /\ history = <<>>
    /\ proc = [p \in Pids |-> "unborn"]
    /\ nextPid = 1
    /\ reapers = [p \in Pids |-> 0]
    /\ pc = "prompt"
    /\ child = 0
    /\ fgjob = NoJob
    /\ frames = <<>>
    /\ stray = {}
    /\ stages = [p \in Pids |-> <<>>]
    /\ killed = {}

----------------------------------------------------------------------------
\* Input lines

Line(programme) == Cmd(programme, 0, 0, FALSE)
LineArg(programme, n) == Cmd(programme, 1, n, FALSE)

\* One pass of the loop of Pysh.start for the command of an input line.
ReadLine(command) ==
    /\ pc = "prompt"
    /\ InBounds(StartCommand(S, command))
    /\ Apply(StartCommand(S, command))

\* The lines the user types, one action per form of line, each taken at the
\* prompt of line 66.
Prompt == pc = "prompt"

Foreground == Prompt /\ ReadLine(Cmd("sleep", 0, 0, FALSE))
Background == Prompt /\ ReadLine(Cmd("sleep", 0, 0, TRUE))
NotFound == Prompt /\ \E b \in BOOLEAN : ReadLine(Cmd("nosuch", 0, 0, b))
Pipeline == Prompt /\ ReadLine(Pipe(<<Line("sleep"), Line("sleep")>>, FALSE))
PipelineBackground == Prompt /\ ReadLine(Pipe(<<Line("sleep"), Line("sleep")>>, TRUE))
PipelineNotFound ==
    /\ Prompt
    /\ \E c \in {<<Line("nosuch"), Line("sleep")>>, <<Line("sleep"), Line("nosuch")>>} :
           ReadLine(Pipe(c, FALSE))
Fg == Prompt /\ ReadLine(Line("fg"))
FgNumber == Prompt /\ \E n \in 1..MaxArg : ReadLine(LineArg("fg", n))
Bg == Prompt /\ ReadLine(Line("bg"))
BgNumber == Prompt /\ \E n \in 1..MaxArg : ReadLine(LineArg("bg", n))
Kill == Prompt /\ \E n \in 1..MaxArg : ReadLine(LineArg("kill", n))
Replay == Prompt /\ \E n \in 1..MaxArg : ReadLine(LineArg("h", n))
ReplayZero == Prompt /\ ReadLine(LineArg("h", 0))
HistoryList == Prompt /\ ReadLine(Line("h"))
JobsList == Prompt /\ ReadLine(Line("jobs"))
ExitCommand == Prompt /\ ReadLine(Line("exit"))

\* parse_line, lines 135-140: the words of the line grouped into the segments
\* between the `|` words; a run of `|` words is one separator, and no group
\* is empty.
RECURSIVE Segments(_, _, _)
Segments(words, i, segment) ==
    IF i > Len(words) THEN (IF segment = <<>> THEN <<>> ELSE <<segment>>)
    ELSE IF words[i] = "|"
    THEN (IF segment = <<>> THEN <<>> ELSE <<segment>>) \o Segments(words, i + 1, <<>>)
    ELSE Segments(words, i + 1, Append(segment, words[i]))

parse_line(words) == Segments(words, 1, <<>>)

\* Command(arguments, background), lines 158-160, for a segment of one word.
FromSegment(segment, background) == Cmd(segment[1], Len(segment) - 1, 0, background)

\* Lines 78-99: what the loop makes of the segments.  sub_command[0] of an
\* empty segment raises IndexError.
BuildCommand(command_strings) ==
    IF command_strings = <<>> THEN [kind |-> "continue", command |-> NoCmd]
    ELSE LET n == Len(command_strings)
             last == command_strings[n]
             background == last[Len(last)] = "&"
             segments == IF background
                         THEN [command_strings EXCEPT ![n] = SubSeq(last, 1, Len(last) - 1)]
                         ELSE command_strings
         IN IF \E i \in 1..n : segments[i] = <<>>
            THEN [kind |-> "IndexError", command |-> NoCmd]
            ELSE IF n < 2
            THEN [kind |-> "command", command |-> FromSegment(segments[1], background)]
            ELSE [kind |-> "command",
                  command |-> Pipe([i \in 1..n |-> FromSegment(segments[i], FALSE)],
                                   background)]

\* One pass of the loop of Pysh.start for a line of words, lines 76-108.
TypeLine(words) ==
    LET built == BuildCommand(parse_line(words))
    IN /\ pc = "prompt"
       /\ CASE built.kind = "continue" -> UNCHANGED vars
            [] built.kind = "IndexError" -> Apply(Crash(S))
            [] OTHER -> ReadLine(built.command)

\* Lines of words: nothing, only separators, only `&`, `&` as the last
\* segment of a pipeline, and lines that hold a command.
BlankLines == {<<>>, <<"|">>}
AmpersandLines == {<<"&">>, <<"sleep", "|", "&">>}
CommandLines == {<<"sleep">>, <<"sleep", "&">>, <<"sleep", "|", "sleep">>}

BlankLine == Prompt /\ \E words \in BlankLines : TypeLine(words)
AmpersandLine == Prompt /\ \E words \in AmpersandLines : TypeLine(words)
CommandLine == Prompt /\ \E words \in CommandLines : TypeLine(words)

\* Pipelines with a built-in stage.
PipelineKill ==
    Prompt /\ \E n \in 1..MaxArg :
                 ReadLine(Pipe(<<LineArg("kill", n), Line("sleep")>>, FALSE))
PipelineExit == Prompt /\ ReadLine(Pipe(<<Line("exit"), Line("sleep")>>, FALSE))
PipelineFg == Prompt /\ ReadLine(Pipe(<<Line("sleep"), Line("fg")>>, FALSE))

\* input() raises EOFError (lines 65-69).
EndOfInput ==
    /\ pc = "prompt"
    /\ Apply(Exit(kill_all(S)))

----------------------------------------------------------------------------
\* Child processes, signals and waits

\* A running child of the shell, not a pipeline leader, terminates.
ProcessExits(p) ==
    /\ proc[p] = "running"
    /\ stages[p] = <<>>   \* not a pipeline leader
    /\ proc' = [proc EXCEPT ![p] = "zombie"]
    /\ UNCHANGED <<jobs, stopped_stack, current_pid, history, nextPid, reapers,
                   pc, child, fgjob, frames, stray, stages, killed>>

\* A child of pipeline leader p terminates.
StageExits(p, i) ==
    /\ i \in 1..Len(stages[p])
    /\ stages[p][i] \in {"running", "stray"}
    /\ stages' = [stages EXCEPT ![p][i] = "exited"]
    /\ UNCHANGED <<jobs, stopped_stack, current_pid, history, proc, nextPid, reapers,
                   pc, child, fgjob, frames, stray, killed>>

\* The leader's os.wait() (line 196, reached from line 322) returns a
\* terminated child, and the leader calls exit() (line 325).
LeaderExits(p) ==
    /\ proc[p] = "running"
    /\ \/ \E i \in 1..Len(stages[p]) : stages[p][i] = "exited"
       \/ stages[p] # <<>> /\ stages[p][Len(stages[p])] = "builtin"   \* nothing to wait for
    /\ proc' = [proc EXCEPT ![p] = "zombie"]
    /\ stages' = [stages EXCEPT ![p] = <<>>]
    /\ UNCHANGED <<jobs, stopped_stack, current_pid, history, nextPid, reapers,
                   pc, child, fgjob, frames, stray, killed>>

\* os.wait() at line 196 or 331 returns a terminated child of the shell,
\* whichever it is.
WaitReturns(z) ==
    /\ pc = "wait"
    /\ proc[z] = "zombie"
    /\ Apply(Unwind([S EXCEPT !.proc[z] = "reaped"], ResTuple(z, "exit"), frames))

\* The SIGTSTP handler (line 57).
stop_process(s) ==
    IF s.current_pid = 0 THEN s
    ELSE IF ~Exists(s, s.current_pid) THEN Crash(s)
    ELSE SigStop(s, s.current_pid)

\* SIGTSTP while blocked at line 196 or 331: the handler runs and os.wait()
\* raises InterruptedError.
WaitInterrupted ==
    /\ pc = "wait"
    /\ LET s == stop_process(S)
       IN Apply(IF Ended(s) THEN s ELSE Unwind(s, ResTuple(child, "stopped"), frames))

\* os.waitpid at line 447 returns: start_process and BuiltInCommand.run return.
FgWaitReturns ==
    /\ pc = "fgwait"
    /\ proc[fgjob.pid] = "zombie"
    /\ Apply(Unwind([S EXCEPT !.proc[fgjob.pid] = "reaped"], ResTrue, frames))

\* Lines 448-450.
StartProcessInterrupted(s) ==
    [s EXCEPT !.stopped_stack = Append(@, s.fgjob), !.jobs = Append(@, s.fgjob)]

\* SIGTSTP while blocked at line 447.
FgWaitInterrupted ==
    /\ pc = "fgwait"
    /\ LET s == stop_process(S)
       IN Apply(IF Ended(s) THEN s
                ELSE Unwind(StartProcessInterrupted(s), ResTrue, frames))

\* StageExits followed by LeaderExits, as the shell sees them: a child of
\* leader p terminates and the leader, in os.wait(), exits.
PipelineFinishes(p) ==
    /\ proc[p] = "running"
    /\ \E i \in 1..Len(stages[p]) : stages[p][i] \in {"running", "stray", "exited"}
    /\ proc' = [proc EXCEPT ![p] = "zombie"]
    /\ stages' = [stages EXCEPT ![p] = <<>>]
    /\ UNCHANGED <<jobs, stopped_stack, current_pid, history, nextPid, reapers,
                   pc, child, fgjob, frames, stray, killed>>

\* wait_job, lines 458-460: the thread's waitpid returns, it removes its job.
wait_job(s, pid) ==
    LET hits == {i \in 1..Len(s.jobs) : s.jobs[i].pid = pid}
        s1 == [s EXCEPT !.proc[pid] = "reaped", !.reapers[pid] = @ - 1]
    IN IF hits = {} THEN s1   \* ValueError ends the thread
       ELSE [s1 EXCEPT !.jobs = Pop(@, CHOOSE i \in hits : TRUE)]

ReaperReaps(p) ==
    /\ reapers[p] > 0
    /\ proc[p] = "zombie"
    /\ Apply(wait_job(S, p))

\* waitpid at line 458 raises ChildProcessError: another wait took the child.
ReaperFails(p) ==
    /\ reapers[p] > 0
    /\ proc[p] = "reaped"
    /\ reapers' = [reapers EXCEPT ![p] = @ - 1]
    /\ UNCHANGED <<jobs, stopped_stack, current_pid, history, proc, nextPid,
                   pc, child, fgjob, frames, stray, stages, killed>>

\* Nothing serialises line 460 of two threads: reaper p computes
\* self.jobs.index(job), reaper q removes its own job, and p then pops at the
\* index it computed, which is now the place of the next job or beyond the
\* end of the list (IndexError ends the thread).
StalePop(seq, i) == IF i <= Len(seq) THEN Pop(seq, i) ELSE seq

ReapersRace(p, q) ==
    /\ p # q
    /\ reapers[p] > 0 /\ proc[p] = "zombie"
    /\ reapers[q] > 0 /\ proc[q] = "zombie"
    /\ \E ip, iq \in 1..Len(jobs) :
           /\ jobs[ip].pid = p
           /\ jobs[iq].pid = q
           /\ jobs' = StalePop(Pop(jobs, iq), ip)
    /\ proc' = [proc EXCEPT ![p] = "reaped", ![q] = "reaped"]
    /\ reapers' = [reapers EXCEPT ![p] = @ - 1, ![q] = @ - 1]
    /\ UNCHANGED <<stopped_stack, current_pid, history, nextPid,
                   pc, child, fgjob, frames, stray, stages, killed>>

\* What processes and threads do, whatever the user types.
Processes ==
    \/ \E p \in Pids : ProcessExits(p)
    \/ \E z \in Pids : WaitReturns(z)
    \/ WaitInterrupted
    \/ \E p \in Pids : ReaperReaps(p)
    \/ \E p \in Pids : ReaperFails(p)

\* The waits of fg.
Resumes ==
    \/ FgWaitReturns
    \/ FgWaitInterrupted

PipelineProcesses ==
    \/ \E p \in Pids : \E i \in 1..Len(stages[p]) : StageExits(p, i)
    \/ \E p \in Pids : LeaderExits(p)

\* A session of job control.
Next ==
    \/ Foreground
    \/ Background
    \/ Fg
    \/ FgNumber
    \/ Bg
    \/ Kill
    \/ ExitCommand
    \/ EndOfInput
    \/ Processes
    \/ Resumes

Spec == Init /\ [][Next]_vars

\* A session of commands, a pipeline, resumes and history replays.
NextSession ==
    \/ Foreground
    \/ Background
    \/ Pipeline
    \/ Fg
    \/ Bg
    \/ Replay
    \/ EndOfInput
    \/ Processes
    \/ Resumes
    \/ \E p \in Pids : PipelineFinishes(p)

SpecSession == Init /\ [][NextSession]_vars

\* A session of commands and history replays.
NextHistory ==
    \/ Foreground
    \/ Background
    \/ Fg
    \/ Replay
    \/ ReplayZero
    \/ HistoryList
    \/ EndOfInput
    \/ Processes
    \/ Resumes

SpecHistory == Init /\ [][NextHistory]_vars

\* A session of commands and pipelines whose programmes may be missing.
NextExec ==
    \/ Foreground
    \/ NotFound
    \/ Pipeline
    \/ PipelineBackground
    \/ PipelineNotFound
    \/ EndOfInput
    \/ Processes
    \/ PipelineProcesses

SpecExec == Init /\ [][NextExec]_vars

\* Job control by job number.
NextJobControl ==
    \/ Foreground
    \/ Background
    \/ FgNumber
    \/ BgNumber
    \/ Kill
    \/ EndOfInput
    \/ Processes
    \/ Resumes

SpecJobControl == Init /\ [][NextJobControl]_vars

\* A session with pipelines that hold a built-in stage.
NextBuiltInStages ==
    \/ Foreground
    \/ Background
    \/ PipelineKill
    \/ PipelineExit
    \/ PipelineFg
    \/ EndOfInput
    \/ Processes
    \/ PipelineProcesses

SpecBuiltInStages == Init /\ [][NextBuiltInStages]_vars

\* A session typed as lines of words.
NextLines ==
    \/ BlankLine
    \/ AmpersandLine
    \/ CommandLine
    \/ EndOfInput
    \/ Processes
    \/ PipelineProcesses

SpecLines == Init /\ [][NextLines]_vars

\* Job control with the scheduling the threads and the kernel guarantee: a
\* wait whose child has terminated returns.  Nothing obliges a process to
\* terminate or the user to type.
Fairness ==
    /\ \A p \in Pids : WF_vars(ReaperReaps(p))
    /\ \A p \in Pids : WF_vars(ReaperFails(p))
    /\ \A z \in Pids : WF_vars(WaitReturns(z))
    /\ WF_vars(FgWaitReturns)

LiveSpec == Init /\ [][Next]_vars /\ Fairness

----------------------------------------------------------------------------
\* Properties

Alive(p) == proc[p] \in {"running", "stopped"}

InTable(p) == \E i \in 1..Len(jobs) : jobs[i].pid = p
InStopped(p) == \E i \in 1..Len(stopped_stack) : stopped_stack[i].pid = p

NoDuplicates(seq) == \A i, j \in 1..Len(seq) : i # j => seq[i] # seq[j]

\* C1: a child whose exec fails never runs the shell's code: the shell is the
\* only process in the read-eval loop, and no failed stage of a pipeline
\* carries on with the leader's loop over the stages.
OnlyTheShellRunsItsCode ==
    /\ \A p \in stray : ~Alive(p)
    /\ \A p \in Pids : \A i \in 1..Len(stages[p]) :
           i < Len(stages[p]) => stages[p][i] # "stray"

\* C2: no two jobs in the job table have the same job_number.
JobNumbersUnique ==
    \A i, j \in 1..Len(jobs) : i # j => jobs[i].job_number # jobs[j].job_number

KilledJobIsRemoved ==
    \A p \in Pids : (p \in killed) ~> (~InTable(p) /\ ~InStopped(p))

StoppedAreJobs ==
    /\ \A i \in 1..Len(stopped_stack) : InSeq(jobs, stopped_stack[i])
    /\ NoDuplicates(stopped_stack)
    /\ NoDuplicates(jobs)

\* C7: current_pid is 0 whenever the main thread is not waiting on a
\* foreground child, in particular at the prompt.
CurrentPidZeroAtPrompt == pc \notin {"wait", "fgwait"} => current_pid = 0

\* Back at the prompt after a replay (the history holds a command twice),
\* with a stopped job registered and a background job running.
CurrentPidZeroWitness ==
    /\ pc = "prompt"
    /\ current_pid = 0
    /\ stopped_stack # <<>>
    /\ \E p \in Pids : reapers[p] = 1
    /\ \E i, j \in 1..Len(history) : i # j /\ history[i] = history[j]

\* C8: while the main thread is blocked waiting on a foreground process,
\* current_pid is that process's pid.
CurrentPidIsForeground ==
    /\ pc = "wait" => current_pid = child
    /\ pc = "fgwait" => current_pid = fgjob.pid

OutOfRange(n) == n < 1 \/ n > Len(history)

\* C9: an out-of-range `h n` leaves the history as it was.
OutOfRangeKeepsHistory ==
    [][\A n \in 0..MaxArg :
          (OutOfRange(n) /\ ReadLine(LineArg("h", n))) => history' = history]_vars

\* C10: `h n` with n < 1 or n beyond the history executes no command: it
\* forks nothing, signals nothing and returns to the prompt.
OutOfRangeRunsNothing ==
    [][\A n \in 0..MaxArg :
          (OutOfRange(n) /\ ReadLine(LineArg("h", n))) =>
              /\ pc' = "prompt"
              /\ nextPid' = nextPid
              /\ proc' = proc
              /\ jobs' = jobs
              /\ stopped_stack' = stopped_stack]_vars

HistoryLines == {Line("h")} \cup {LineArg("h", n) : n \in 0..MaxArg}

\* Background jobs, their reapers and the waits of the main thread, with
\* the scheduling of Fairness.
NextReapers ==
    \/ Foreground
    \/ Background
    \/ Fg
    \/ Bg
    \/ JobsList
    \/ EndOfInput
    \/ Processes
    \/ Resumes
    \/ \E p, q \in Pids : ReapersRace(p, q)

SpecReapers == Init /\ [][NextReapers]_vars /\ Fairness

\* C11: a `h` line, with or without an argument, is never appended to the
\* history, and no entry of the history is a `h` or `history` command; the
\* line of any other built-in that returns to the prompt is appended once.
HistoryCommandNotRecorded ==
    [][/\ \A c \in HistoryLines : ReadLine(c) => history' # Append(history, c)
       /\ \A i \in 1..Len(history') : history'[i].programme \notin {"h", "history"}
       /\ \A c \in {Line("fg"), Line("bg")} :
              (ReadLine(c) /\ pc' = "prompt") => history' = Append(history, c)]_vars

\* C12: a valid replay `h n` runs entry n and appends that entry, once it has
\* run, and nothing else; no step removes or changes an entry of the history.
ValidReplayAppendsOnce ==
    [][/\ Len(history') >= Len(history)
       /\ SubSeq(history', 1, Len(history)) = history
       /\ \A n \in 1..MaxArg :
              (n <= Len(history) /\ ReadLine(LineArg("h", n))) =>
                  \/ pc' = "prompt" /\ history' = Append(history, history[n])
                  \/ /\ pc' \in {"wait", "fgwait"}
                     /\ history' = history
                     /\ InSeq(frames', Frame("History.run", history[n]))]_vars

\* C13: a valid replay `h n` leaves the job table, the stopped stack and
\* current_pid as typing entry n again would, and the history with entry n
\* appended as typing it would.
ReplayIsRetyping ==
    [][\A n \in 1..MaxArg :
          (n <= Len(history) /\ ReadLine(LineArg("h", n))) =>
              LET typed == StartCommand(S, history[n])
              IN /\ jobs' = typed.jobs
                 /\ stopped_stack' = typed.stopped_stack
                 /\ current_pid' = typed.current_pid
                 /\ reapers' = typed.reapers
                 /\ history' = typed.history]_vars

\* C14: a line of no segments and a line that is only `&` run nothing: the
\* loop is at the prompt again, and the history, the job table and the
\* processes are what they were.
EmptyLinesAreSkipped ==
    [][\A words \in {<<>>, <<"&">>} :
          TypeLine(words) => /\ pc' = "prompt"
                             /\ history' = history
                             /\ jobs' = jobs
                             /\ proc' = proc]_vars

\* The job `fg n` / `bg n` cannot resume, or `kill n` cannot signal: n names
\* no job, or names a job that is not on the stopped stack.
NotResumable(programme, n) ==
    LET job == get_job_by_number(S, n)
    IN \/ job = NoJob
       \/ programme \in {"fg", "bg"} /\ ~InSeq(stopped_stack, job)

\* C15: `fg n`, `bg n` and `kill n` for such an n leave the job table and the
\* stopped stack as they were and the loop at the prompt.
JobControlErrorsNotFatal ==
    [][\A programme \in {"fg", "bg", "kill"} : \A n \in 1..MaxArg :
          (NotResumable(programme, n) /\ ReadLine(LineArg(programme, n))) =>
              /\ pc' = "prompt"
              /\ jobs' = jobs
              /\ stopped_stack' = stopped_stack]_vars

BuiltInPipelines ==
    {Pipe(<<LineArg("kill", n), Line("sleep")>>, FALSE) : n \in 1..MaxArg}
        \cup {Pipe(<<Line("exit"), Line("sleep")>>, FALSE),
              Pipe(<<Line("sleep"), Line("fg")>>, FALSE)}

\* C16: a pipeline with a built-in stage leaves the job table and the stopped
\* stack as they were, changes the state of no process the shell already had,
\* and does not end the shell.
BuiltInStagesLeaveTheShell ==
    [][\A c \in BuiltInPipelines :
          ReadLine(c) => /\ jobs' = jobs
                         /\ stopped_stack' = stopped_stack
                         /\ \A p \in Pids : p < nextPid => proc'[p] = proc[p]
                         /\ pc' \notin {"crashed", "exited"}]_vars

\* C17: the wait of a foreground command returns to the prompt only when the
\* command's own child has exited or been stopped.
ForegroundWaitsForItsChild ==
    [][(pc = "wait" /\ pc' = "prompt") => proc'[child] # "running"]_vars

\* C18: an entry leaves the job table, other than by `fg`, only when its
\* process has exited, and the entry of a background job whose process has
\* exited eventually leaves the table.
ReaperRemovesItsJob ==
    /\ [][\A p \in Pids :
              (InTable(p) /\ ~(\E i \in 1..Len(jobs') : jobs'[i].pid = p)
                  /\ pc' # "fgwait") => proc[p] = "zombie"]_vars
    /\ \A p \in Pids :
           (InTable(p) /\ ~InStopped(p) /\ ~Alive(p)) ~> ~InTable(p)

\* C19: a pipeline leader that exits has seen its last stage exit.
LeaderExitsAfterLastStage ==
    [][\A p \in Pids :
          (stages[p] # <<>> /\ proc[p] = "running" /\ proc'[p] = "zombie" /\ pc' = pc)
              => stages[p][Len(stages[p])] = "exited"]_vars

\* C20: no entry of the job table or of the stopped stack carries a pid that
\* a wait of the shell has collected, and so no signal goes to such a pid.
NoCollectedPidInTable ==
    /\ \A i \in 1..Len(jobs) : proc[jobs[i].pid] # "reaped"
    /\ \A i \in 1..Len(stopped_stack) : proc[stopped_stack[i].pid] # "reaped"

====
